---- MODULE Spec2Model ----
(***************************************************************************)
(* Model of ai-engine/app.py (Tracel): the lazy model loader and the       *)
(* request handlers that use it (/health, /predict), and the threat-intel  *)
(* report (/report/threat-intel) with its query-side classification.       *)
(***************************************************************************)
EXTENDS Integers, Sequences, FiniteSets, TLC

(***************************************************************************)
(* Bounds of the model.                                                    *)
(***************************************************************************)
\* number of requests that call ensure_model_loaded() in one behaviour; the
\* threaded server gives each request a thread of its own
MaxRequests == 3

(***************************************************************************)
(* State of the classification of one stored event (SpecClassify).         *)
(***************************************************************************)
VARIABLES
    cdoc,    \* the stored event being classified
    cvec     \* the value vector_expr computed for it, "none" before

classifyVars == <<cdoc, cvec>>

(***************************************************************************)
(* State of the event store and of one report request (SpecReport).        *)
(***************************************************************************)
VARIABLES
    store,   \* the documents of the packets collection (identifiers of Catalog)
    rpc,     \* the query the report handler runs next, or "idle"
    rreq,    \* the report request: sinceHours, ownerUserId, and the window
    writes,  \* how often the store was written since the count query of this report
    rtotal,  \* the local `total`
    rips,    \* the local `top_hostile`
    rvec,    \* the local `vector_dist`, and whether the store was still unwritten
    rgeo,    \* the local `geo_top`
    rout,    \* the response sent by the step just taken, if any
    rlast    \* the last report answered over the store as it is now, if any

reportVars == <<store, rpc, rreq, writes, rtotal, rips, rvec, rgeo, rout, rlast>>

(***************************************************************************)
(* State of the specifications that apply one function of the program to   *)
(* one input: the country derivations (SpecCountry), the vector            *)
(* derivations (SpecDerive), the scoring part of predict() (SpecPredict)   *)
(* and the confidence buckets (SpecBuckets).                               *)
(***************************************************************************)
VARIABLES
    gip,      \* the stored source_ip whose country is derived
    gquery,   \* the country country_expr selects for it, <<>> before
    gapp,     \* the country _ip_to_country_name returns for it, <<>> before
    dmethod,  \* the stored method of the event whose vector is derived
    dbytes,   \* the stored bytes of that event
    dquery,   \* the value of the derived branch of vector_expr, "none" before
    dapp,     \* the outcome of _classify_attack_vector, "none" before
    pmodel,   \* the object ensure_model_loaded() returned to predict()
    pdata,    \* request.json of the /predict request
    presp,    \* the response of predict(), status 0 before
    bscores,  \* the finite scores of a window, in ascending order
    btotal,   \* the total of the count query of that window
    bout      \* the thresholds and bucket counts computed from them

pureVars == <<gip, gquery, gapp, dmethod, dbytes, dquery, dapp,
              pmodel, pdata, presp, bscores, btotal, bout>>

\* a step of one part of the service leaves the state of the other parts alone
LoaderStep == UNCHANGED <<classifyVars, reportVars, pureVars>>

(***************************************************************************)
(* PART 1.  The lazy model loader and the request layer.                   *)
(* Each step is one read or write of a global of ensure_model_loaded(), so *)
(* that the threads of the threaded server interleave as CPython lets them. *)
(***************************************************************************)
VARIABLES
    phase,        \* "boot" | "preload" | "serving": how far the process has started
    model,        \* the global `model`: NoModel, or the identity of a loaded object
    model_error,  \* the global `model_error`: None, or a reason
    pc,           \* per thread: the line of ensure_model_loaded() it is at
    req,          \* per thread: the request it serves
    m_,           \* per thread: the local `m` of ensure_model_loaded
    err_,         \* per thread: the local `err` (or the message built from `e`)
    ret,          \* per thread: the first element of the pair being returned (line 156)
    sent,         \* the request answered by the step just taken, if any: the request,
                  \* the pair ensure_model_loaded() returned to it, the response
    started,      \* history: number of requests that called ensure_model_loaded()
    firstRes      \* history: the first load_model() call to finish: who made it, its
                  \* outcome, and how many requests had started when its
                  \* ensure_model_loaded() returned

loaderVars == <<phase, model, model_error, pc, req, m_, err_, ret, sent,
                started, firstRes>>

MainThread == 0
\* the threaded server starts one thread per request
Workers == 1..MaxRequests
Threads == {MainThread} \cup Workers

\* Python's None for the string-valued globals and locals
None == "None"
\* Python's None for a model reference.  A loaded object is identified by
\* ModelOf(t), t being the thread whose joblib.load() call created it.
NoModel == 0
ModelOf(t) == t + 1

\* What load_model() can find at MODEL_PATH when it looks.  The file is deployed,
\* removed or damaged by the operator at any time, and nothing else reads it.
DiskStates == {"missing", "corrupt", "good"}

\* The two reasons load_model() returns, and the one ensure_model_loaded() builds.
NotFound == "model file not found"
LoadFailed == "failed to load model from path"
Interrupted == "failed to load model"
Reasons == {NotFound, LoadFailed, Interrupted}

NoReq == [kind |-> "none", load |-> None]
NoResp == [status |-> 0, body |-> [none |-> TRUE]]
NoRet == <<NoModel, "unset">>
NoSent == [req |-> NoReq, ret |-> NoRet, resp |-> NoResp, ranLoad |-> FALSE, late |-> FALSE]
NoFirst == [by |-> MainThread, res |-> "unset", done |-> FALSE, at |-> 0]

\* request.args.get('load') values tried
LoadArgs == {None, "1", "0"}

\* request.json values tried by /predict (read at line 206, after the model check)
PredictInputs ==
    { [bytes |-> [t |-> "int", v |-> 50000], id |-> "p1"],
      [bytes |-> [t |-> "str", v |-> 0], id |-> None] }

\* load_model(): the result for the file found on disk, obj being the object
\* joblib.load() would create.
load_model(d, obj) ==
    CASE d = "missing" -> <<NoModel, NotFound>>
      [] d = "corrupt" -> <<NoModel, LoadFailed>>
      [] OTHER         -> <<obj, None>>

force_load_any(arg) == arg # None

\* health(): force_load = request.args.get('load') == '1'
force_load(arg) == arg = "1"

\* health(): the detailed payload and status built from ensure_model_loaded()'s result
HealthPayload(r) ==
    [status |-> IF r[1] = NoModel THEN 503 ELSE 200,
     body   |-> [ok |-> TRUE, modelLoaded |-> r[1] # NoModel, modelError |-> r[2]]]

\* predict(): the part after the model check.  int() of a non-numeric string
\* raises, which the handler turns into a 500.
PredictScore(data) ==
    IF data.bytes.t = "int"
    THEN [status |-> 200, body |-> [score |-> "decision_function", id |-> data.id]]
    ELSE [status |-> 500, body |-> [error |-> "invalid literal for int()"]]

\* predict(): 503 when ensure_model_loaded() returned no model
PredictResponse(r, data) ==
    IF r[1] = NoModel
    THEN [status |-> 503, body |-> [error |-> "model not loaded", details |-> r[2]]]
    ELSE PredictScore(data)

\* What the caller of ensure_model_loaded() does with the returned pair r, for
\* the request body data.
Respond(t, r, data) ==
    CASE req[t].kind = "predict" -> PredictResponse(r, data)
      [] req[t].kind = "health"  -> HealthPayload(r)
      [] OTHER                   -> NoResp

LoaderInit ==
    /\ phase = "boot"
    /\ model = NoModel
    /\ model_error = None
    /\ pc = [t \in Threads |-> "idle"]
    /\ req = [t \in Threads |-> NoReq]
    /\ m_ = [t \in Threads |-> NoModel]
    /\ err_ = [t \in Threads |-> None]
    /\ ret = [t \in Threads |-> NoModel]
    /\ sent = NoSent
    /\ started = 0
    /\ firstRes = NoFirst

globals == <<model, model_error>>
history == <<started, firstRes>>

\* A step that answers no request.
Quiet == sent' = NoSent

\* The request of thread t began after the first load attempt had been resolved.
Late(t) == firstRes.done /\ t > firstRes.at

\* `python app.py`: the main thread preloads the model before app.run().
StartPreload ==
    /\ phase = "boot"
    /\ LoaderStep
    /\ phase' = "preload"
    /\ pc' = [pc EXCEPT ![MainThread] = "L142"]
    /\ req' = [req EXCEPT ![MainThread] = [kind |-> "preload", load |-> None]]
    /\ Quiet
    /\ UNCHANGED <<model, model_error, m_, err_, ret>>
    /\ UNCHANGED history

\* The module is imported by a WSGI server: the __main__ block does not run and
\* requests are served with the loader still Unloaded.
WsgiImport ==
    /\ phase = "boot"
    /\ LoaderStep
    /\ phase' = "serving"
    /\ Quiet
    /\ UNCHANGED <<model, model_error, pc, req, m_, err_, ret>>
    /\ UNCHANGED history

\* The server starts a thread for a request that calls ensure_model_loaded().
Begin(t, r) ==
    /\ phase = "serving"
    /\ LoaderStep
    /\ started < MaxRequests
    /\ t = started + 1
    /\ started' = started + 1
    /\ pc' = [pc EXCEPT ![t] = "L142"]
    /\ req' = [req EXCEPT ![t] = r]
    /\ Quiet
    /\ UNCHANGED <<phase, model, model_error, m_, err_, ret, firstRes>>

\* GET /health without load=1: answered at once (line 173)
HealthRunning(arg) ==
    /\ phase = "serving"
    /\ LoaderStep
    /\ sent' = [NoSent EXCEPT
                  !.req = [kind |-> "health", load |-> arg],
                  !.resp = [status |-> 200, body |-> [status |-> "running"]]]
    /\ UNCHANGED <<phase, model, model_error, pc, req, m_, err_, ret>>
    /\ UNCHANGED history

\* GET /health, with or without ?load=1
Health ==
    \E arg \in LoadArgs :
        IF force_load(arg)
        THEN \E t \in Workers : Begin(t, [kind |-> "health", load |-> arg])
        ELSE HealthRunning(arg)

\* POST /predict
Predict ==
    \E t \in Workers : Begin(t, [kind |-> "predict", load |-> None])

\* ensure_model_loaded() returns the pair r to its caller, which answers the
\* request (the main thread goes on to app.run()); ran tells whether this call
\* went through load_model().  The thread ends and its locals with it.
Return(t, r, ran) ==
    /\ \E data \in PredictInputs :
         sent' = [req |-> req[t], ret |-> r, resp |-> Respond(t, r, data),
                  ranLoad |-> ran, late |-> Late(t)]
    /\ pc' = [pc EXCEPT ![t] = "done"]
    /\ LoaderStep
    /\ req' = [req EXCEPT ![t] = NoReq]
    /\ m_' = [m_ EXCEPT ![t] = NoModel]
    /\ err_' = [err_ EXCEPT ![t] = None]
    /\ ret' = [ret EXCEPT ![t] = NoModel]
    /\ phase' = IF t = MainThread THEN "serving" ELSE phase
    /\ firstRes' = IF ran /\ firstRes.res # "unset" /\ firstRes.by = t
                   THEN [firstRes EXCEPT !.done = TRUE, !.at = started]
                   ELSE firstRes
    /\ UNCHANGED <<model, model_error, started>>

Goto(t, l) == pc' = [pc EXCEPT ![t] = l] /\ LoaderStep

CachedModel_forced(t) == model # NoModel /\ req[t].kind # "health"

\* line 142: if model is not None
CachedModel(t) == model # NoModel

\* line 144: if model_error is not None
CachedError(t) == model_error # None

\* line 142
L142(t) ==
    /\ pc[t] = "L142"
    /\ Goto(t, IF CachedModel(t) THEN "L143" ELSE "L144")
    /\ Quiet
    /\ UNCHANGED <<phase, model, model_error, req, m_, err_, ret>>
    /\ UNCHANGED history

\* line 143: return model, None
L143(t) ==
    /\ pc[t] = "L143"
    /\ Return(t, <<model, None>>, FALSE)

\* line 144; when nothing is cached the thread goes on into load_model() (line 149)
L144(t) ==
    /\ pc[t] = "L144"
    /\ Goto(t, IF CachedError(t) THEN "L145" ELSE "L81")
    /\ Quiet
    /\ UNCHANGED <<phase, model, model_error, req, m_, err_, ret>>
    /\ UNCHANGED history

\* line 145: return None, model_error
L145(t) ==
    /\ pc[t] = "L145"
    /\ Return(t, <<NoModel, model_error>>, FALSE)

\* lines 81-86 and 149: load_model() returns and m, err are bound
L81(t) ==
    /\ pc[t] = "L81"
    /\ \E disk \in DiskStates : LET r == load_model(disk, ModelOf(t)) IN
         /\ m_' = [m_ EXCEPT ![t] = r[1]]
         /\ err_' = [err_ EXCEPT ![t] = r[2]]
         /\ firstRes' = IF firstRes.res = "unset"
                        THEN [NoFirst EXCEPT !.by = t,
                                !.res = IF r[1] # NoModel THEN "ok" ELSE r[2]]
                        ELSE firstRes
    /\ Goto(t, "L150")
    /\ Quiet
    /\ UNCHANGED <<phase, model, model_error, req, ret, started>>

\* line 157: a BaseException that is not an Exception (KeyboardInterrupt, which
\* Python delivers to the main thread only) escapes load_model()
L157(t) ==
    /\ pc[t] = "L81"
    /\ t = MainThread
    /\ err_' = [err_ EXCEPT ![t] = Interrupted]
    /\ firstRes' = IF firstRes.res = "unset"
                   THEN [NoFirst EXCEPT !.by = t, !.res = Interrupted]
                   ELSE firstRes
    /\ Goto(t, "L159")
    /\ Quiet
    /\ UNCHANGED <<phase, model, model_error, req, m_, ret, started>>

\* line 150: model = m  (m is not read again)
L150(t) ==
    /\ pc[t] = "L150"
    /\ model' = m_[t]
    /\ m_' = [m_ EXCEPT ![t] = NoModel]
    /\ Goto(t, "L151")
    /\ Quiet
    /\ UNCHANGED <<phase, model_error, req, err_, ret>>
    /\ UNCHANGED history

\* line 151: model_error = err  (err is not read again)
L151(t) ==
    /\ pc[t] = "L151"
    /\ model_error' = err_[t]
    /\ err_' = [err_ EXCEPT ![t] = None]
    /\ Goto(t, "L156a")
    /\ Quiet
    /\ UNCHANGED <<phase, model, req, m_, ret>>
    /\ UNCHANGED history

\* line 156: return model, model_error -- the first global is read
L156a(t) ==
    /\ pc[t] = "L156a"
    /\ ret' = [ret EXCEPT ![t] = model]
    /\ Goto(t, "L156b")
    /\ Quiet
    /\ UNCHANGED <<phase, model, model_error, req, m_, err_>>
    /\ UNCHANGED history

\* line 156: the second global is read and the pair is returned
L156b(t) ==
    /\ pc[t] = "L156b"
    /\ Return(t, <<ret[t], model_error>>, TRUE)

\* line 159: model = None
L159(t) ==
    /\ pc[t] = "L159"
    /\ model' = NoModel
    /\ Goto(t, "L160")
    /\ Quiet
    /\ UNCHANGED <<phase, model_error, req, m_, err_, ret>>
    /\ UNCHANGED history

\* line 160: model_error = f"failed to load model: {e}"
L160(t) ==
    /\ pc[t] = "L160"
    /\ model_error' = err_[t]
    /\ Goto(t, "L162")
    /\ Quiet
    /\ UNCHANGED <<phase, model, req, m_, err_, ret>>
    /\ UNCHANGED history

\* line 162: return None, model_error
L162(t) ==
    /\ pc[t] = "L162"
    /\ Return(t, <<NoModel, model_error>>, TRUE)

\* One step of ensure_model_loaded() in thread t.
Ensure(t) ==
    \/ L142(t) \/ L143(t) \/ L144(t) \/ L145(t)
    \/ L81(t) \/ L157(t)
    \/ L150(t) \/ L151(t) \/ L156a(t) \/ L156b(t)
    \/ L159(t) \/ L160(t) \/ L162(t)

LoaderNext ==
    \/ StartPreload
    \/ WsgiImport
    \/ Health
    \/ Predict
    \/ \E t \in Threads : Ensure(t)

(***************************************************************************)
(* Properties of the loader (specification Spec).                          *)
(***************************************************************************)
Unloaded == model = NoModel /\ model_error = None
Resolved == model # NoModel \/ model_error # None

\* A pair as ensure_model_loaded() is meant to return it
WellFormed(r) ==
    \/ r[1] # NoModel /\ r[2] = None
    \/ r[1] = NoModel /\ r[2] \in Reasons

\* the step just taken answered a request that went through ensure_model_loaded()
Answered(kind) == sent.req.kind = kind /\ sent.ret # NoRet

\* thread t takes the step
Steps(t) == pc'[t] # pc[t]

\* C1: at most one thread is inside load_model() at any time.
C1_AtMostOneLoad ==
    Cardinality({t \in Threads : pc[t] = "L81"}) <= 1

\* C2: once the globals are Loaded or Failed, no step of a thread serving
\* /predict changes them, and no such thread enters load_model().
C2_Sticky ==
    [][\A t \in Workers :
          (req[t].kind = "predict" /\ Steps(t) /\ Resolved)
          => (model' = model /\ model_error' = model_error /\ pc'[t] # "L81")]_loaderVars

\* C3: every call of ensure_model_loaded() returns (model, None) or (None, reason).
C3_ReturnWellFormed ==
    sent.ret # NoRet => WellFormed(sent.ret)

C5_FailureIsFinal ==
    (Answered("predict") /\ sent.late /\ firstRes.res \in Reasons)
    => /\ sent.resp.status = 503
       /\ sent.resp.body.error = "model not loaded"
       /\ sent.resp.body.details = firstRes.res
       /\ ~sent.ranLoad

Null == [t |-> "null", s |-> <<>>, v |-> 0]
StrVal(chars) == [t |-> "str", s |-> chars, v |-> 0]
IntVal(n) == [t |-> "int", s |-> <<>>, v |-> n]

LowerLetters == <<"a", "c", "d", "e", "g", "h", "l", "o", "p", "r", "s", "t", "u", "v", "x">>
UpperLetters == <<"A", "C", "D", "E", "G", "H", "L", "O", "P", "R", "S", "T", "U", "V", "X">>
Digits == <<"0", "1", "2", "3", "4", "5", "6", "7", "8", "9">>

IndexOf(c, letters) == CHOOSE i \in 1..Len(letters) : letters[i] = c
IsIn(c, letters) == \E i \in 1..Len(letters) : letters[i] = c

\* $toLower / $toUpper, str.upper()
ToLower(str) ==
    [i \in 1..Len(str) |->
        IF IsIn(str[i], UpperLetters) THEN LowerLetters[IndexOf(str[i], UpperLetters)]
        ELSE str[i]]
ToUpper(str) ==
    [i \in 1..Len(str) |->
        IF IsIn(str[i], LowerLetters) THEN UpperLetters[IndexOf(str[i], LowerLetters)]
        ELSE str[i]]

IsSpace(c) == c = " "

RECURSIVE TrimLeft(_)
TrimLeft(str) ==
    IF str # <<>> /\ IsSpace(Head(str)) THEN TrimLeft(Tail(str)) ELSE str

RECURSIVE TrimRight(_)
TrimRight(str) ==
    IF str # <<>> /\ IsSpace(str[Len(str)])
    THEN TrimRight(SubSeq(str, 1, Len(str) - 1))
    ELSE str

\* $trim without `chars`, str.strip(): whitespace is removed at both ends
Trim(str) == TrimRight(TrimLeft(str))

\* $regexMatch with regex ^prefix
RegexMatchPrefix(str, prefix) ==
    Len(str) >= Len(prefix) /\ SubSeq(str, 1, Len(prefix)) = prefix

\* $ifNull: [x, d]
IfNull(x, d) == IF x.t = "null" THEN d ELSE x

IsDigits(str) == str # <<>> /\ \A i \in 1..Len(str) : IsIn(str[i], Digits)

RECURSIVE DigitsValue(_)
DigitsValue(str) ==
    IF str = <<>> THEN 0
    ELSE 10 * DigitsValue(SubSeq(str, 1, Len(str) - 1))
         + (IndexOf(str[Len(str)], Digits) - 1)

\* a decimal integer literal: digits with an optional minus sign
IsIntLiteral(str) ==
    \/ IsDigits(str)
    \/ str # <<>> /\ Head(str) = "-" /\ IsDigits(Tail(str))
IntLiteralValue(str) ==
    IF Head(str) = "-" THEN 0 - DigitsValue(Tail(str)) ELSE DigitsValue(str)

\* $convert: {input: x, to: 'int', onError: 0, onNull: 0}
ConvertInt(x) ==
    CASE x.t = "int"  -> x.v
      [] x.t = "null" -> 0
      [] OTHER        -> IF IsIntLiteral(x.s) THEN IntLiteralValue(x.s) ELSE 0

VolumetricBytes == 7000

ApplicationMethods ==
    { <<"P", "O", "S", "T">>, <<"P", "U", "T">>, <<"P", "A", "T", "C", "H">>,
      <<"D", "E", "L", "E", "T", "E">> }

\* vector_expr, the 'default' branch of the $switch: the derivation from b and m
\* the derivation with the method rule tried before the bytes rule
DerivedVector_methodFirst(b, m) ==
    IF m \in ApplicationMethods THEN "Application"
    ELSE IF b >= VolumetricBytes THEN "Volumetric"
    ELSE "Protocol"

\* vector_expr, the derived value: bytes, then method
DerivedVector(b, m) ==
    IF b >= VolumetricBytes THEN "Volumetric"
    ELSE IF m \in ApplicationMethods THEN "Application"
    ELSE "Protocol"

\* vector_expr, the $let vars: explicit
ExplicitVector(doc) == ToLower(Trim(IfNull(doc.attack_vector, StrVal(<<>>)).s))

\* the classification in which only an absent or empty explicit value is derived
vector_expr_explicitOnly(doc) ==
    LET explicit == ExplicitVector(doc)
        m == ToUpper(IfNull(doc.method, StrVal(<<>>)).s)
        b == ConvertInt(doc.bytes)
    IN  CASE RegexMatchPrefix(explicit, <<"v", "o", "l">>)      -> "Volumetric"
          [] RegexMatchPrefix(explicit, <<"p", "r", "o", "t">>) -> "Protocol"
          [] RegexMatchPrefix(explicit, <<"a", "p", "p">>)      -> "Application"
          [] OTHER -> IF explicit = <<>> THEN DerivedVector(b, m) ELSE "Unknown"

\* vector_expr: the attack vector of one stored event
vector_expr(doc) ==
    LET explicit == ExplicitVector(doc)
        m == ToUpper(IfNull(doc.method, StrVal(<<>>)).s)
        b == ConvertInt(doc.bytes)
    IN  CASE RegexMatchPrefix(explicit, <<"v", "o", "l">>)      -> "Volumetric"
          [] RegexMatchPrefix(explicit, <<"p", "r", "o", "t">>) -> "Protocol"
          [] RegexMatchPrefix(explicit, <<"a", "p", "p">>)      -> "Application"
          [] OTHER -> DerivedVector(b, m)

(***************************************************************************)
(* Specification SpecClassify: the classification expressions applied to   *)
(* one stored event drawn from the values below.                           *)
(***************************************************************************)
\* stored attack_vector values tried
AttackVectorValues ==
    { Null, StrVal(<<>>), StrVal(<<" ", " ">>),
      StrVal(<<"V", "o", "l", "u", "m", "e", "t", "r", "i", "c">>),
      StrVal(<<" ", "V", "O", "L", " ">>),
      StrVal(<<"p", "r", "o", "t">>),
      StrVal(<<"P", "r", "o">>),
      StrVal(<<"A", "P", "P", "x">>),
      StrVal(<<"x", "v", "o", "l">>),
      StrVal(<<"d", "d", "o", "s">>) }

\* stored method values tried
MethodValues ==
    { Null, StrVal(<<>>),
      StrVal(<<"P", "O", "S", "T">>), StrVal(<<"p", "o", "s", "t">>),
      StrVal(<<"P", "U", "T">>), StrVal(<<"P", "A", "T", "C", "H">>),
      StrVal(<<"D", "E", "L", "E", "T", "E">>),
      StrVal(<<"G", "E", "T">>), StrVal(<<"P", "O", "S", "T", "S">>) }

\* stored bytes values tried
BytesValues ==
    { Null, IntVal(0), IntVal(500), IntVal(6999), IntVal(7000), IntVal(8000) }

NoReport == [sinceHours |-> 0, owner |-> "", since |-> 0, now |-> 0]
NoVector == [dist |-> <<>>, clean |-> TRUE]
NoThresholds == [kind |-> "absent", obviousLe |-> 0, subtleLe |-> 0]
NoBody ==
    [window |-> NoReport, totalThreats |-> 0, topHostileIps |-> <<>>,
     attackVectorDistribution |-> <<>>, geoTopCountries |-> <<>>,
     aiConfidenceThresholds |-> NoThresholds, aiConfidenceDistribution |-> <<>>]
NoLast == [valid |-> FALSE, req |-> NoReport, body |-> NoBody]
NoOut == [status |-> 0, req |-> NoReport, body |-> NoBody,
          vectorsClean |-> TRUE, prev |-> NoLast]

ClassifyDocs ==
    [attack_vector : AttackVectorValues, method : MethodValues, bytes : BytesValues]

ClassifyInit ==
    /\ cdoc \in ClassifyDocs
    /\ cvec = "none"

\* the $addFields stage {'vector': vector_expr} applied to the event
ClassifyVector ==
    /\ cvec = "none"
    /\ cvec' = vector_expr(cdoc)
    /\ UNCHANGED <<cdoc, loaderVars, reportVars, pureVars>>

ClassifyNext == ClassifyVector

\* no report is being computed and the collection is empty
ReportIdle ==
    /\ store = {}
    /\ rpc = "idle"
    /\ rreq = NoReport
    /\ writes = 0
    /\ rtotal = 0
    /\ rips = <<>>
    /\ rvec = NoVector
    /\ rgeo = <<>>
    /\ rout = NoOut
    /\ rlast = NoLast

\* An explicit value names category when, trimmed and lower-cased, it is the
\* prefix followed by anything.
Names(value, prefix) ==
    /\ value.t = "str"
    /\ LET low == ToLower(Trim(value.s)) IN
         \E n \in 0..Len(low) : low = prefix \o SubSeq(low, Len(low) - n + 1, Len(low))

NamesVolumetric(doc) == Names(doc.attack_vector, <<"v", "o", "l">>)
NamesProtocol(doc) == Names(doc.attack_vector, <<"p", "r", "o", "t">>)
NamesApplication(doc) == Names(doc.attack_vector, <<"a", "p", "p">>)
NamesNothing(doc) ==
    ~NamesVolumetric(doc) /\ ~NamesProtocol(doc) /\ ~NamesApplication(doc)

\* the stored bytes as a number (absent counts as 0)
BytesOf(doc) == IF doc.bytes.t = "int" THEN doc.bytes.v ELSE 0

\* the stored method is POST, PUT, PATCH or DELETE (in any letter case, which
\* vector_expr folds with $toUpper)
IsWriteMethod(doc) ==
    /\ doc.method.t = "str"
    /\ \E w \in ApplicationMethods : ToLower(doc.method.s) = ToLower(w)

Post == StrVal(<<"P", "O", "S", "T">>)
Get == StrVal(<<"G", "E", "T">>)

MaxEvents == 4

\* further BSON values: booleans, dates (in hours), strings that $convert turns
\* into a date, strings it cannot, and a non-finite double
BoolVal(b) == [t |-> "bool", s |-> <<>>, v |-> IF b THEN 1 ELSE 0]
DateVal(h) == [t |-> "date", s |-> <<>>, v |-> h]
IsoString(h) == [t |-> "isostr", s |-> <<>>, v |-> h]
BadString == [t |-> "badstr", s |-> <<>>, v |-> 0]
NaN == [t |-> "nan", s |-> <<>>, v |-> 0]

\* datetime.now(timezone.utc), in hours
Now == 200

\* The documents the ingestion side may insert, by _id.
Catalog ==
    1 :> [is_anomaly |-> BoolVal(TRUE), owner_user_id |-> "u1",
           source_ip |-> StrVal(<<"1", "0", ".", "0", ".", "0", ".", "1">>), method |-> StrVal(<<"P", "O", "S", "T">>), bytes |-> IntVal(8000),
           timestamp |-> DateVal(199), anomaly_score |-> IntVal(0),
           attack_vector |-> Null, source_country |-> Null] @@
    2 :> [is_anomaly |-> IntVal(1), owner_user_id |-> "u1",
           source_ip |-> StrVal(<<"2", "3", ".", "4", ".", "5", ".", "6">>), method |-> StrVal(<<"G", "E", "T">>), bytes |-> IntVal(500),
           timestamp |-> IsoString(199), anomaly_score |-> IntVal(4),
           attack_vector |-> Null, source_country |-> Null] @@
    3 :> [is_anomaly |-> StrVal(<<"t", "r", "u", "e">>), owner_user_id |-> "u2",
           source_ip |-> StrVal(<<"1", "0", ".", "0", ".", "0", ".", "1">>), method |-> StrVal(<<"p", "o", "s", "t">>), bytes |-> IntVal(500),
           timestamp |-> DateVal(180), anomaly_score |-> IntVal(30),
           attack_vector |-> StrVal(<<"A", "p", "p">>), source_country |-> StrVal(<<" ", "F", "r", "a", "n", "c", "e", " ">>)] @@
    4 :> [is_anomaly |-> BoolVal(TRUE), owner_user_id |-> None,
           source_ip |-> Null, method |-> Null, bytes |-> Null,
           timestamp |-> DateVal(199), anomaly_score |-> Null,
           attack_vector |-> StrVal(<<"d", "d", "o", "s">>), source_country |-> StrVal(<<>>)] @@
    5 :> [is_anomaly |-> BoolVal(TRUE), owner_user_id |-> "u1",
           source_ip |-> StrVal(<<"2", "3", ".", "4", ".", "5", ".", "6">>), method |-> StrVal(<<"G", "E", "T">>), bytes |-> IntVal(100),
           timestamp |-> BadString, anomaly_score |-> IntVal(0),
           attack_vector |-> Null, source_country |-> Null] @@
    6 :> [is_anomaly |-> BoolVal(FALSE), owner_user_id |-> "u1",
           source_ip |-> StrVal(<<"1", "0", ".", "0", ".", "0", ".", "1">>), method |-> StrVal(<<"G", "E", "T">>), bytes |-> IntVal(100),
           timestamp |-> DateVal(199), anomaly_score |-> IntVal(0),
           attack_vector |-> Null, source_country |-> Null] @@
    7 :> [is_anomaly |-> StrVal(<<"T", "r", "u", "e">>), owner_user_id |-> "u1",
           source_ip |-> StrVal(<<"-", "7", ".", "1", ".", "1", ".", "1">>), method |-> StrVal(<<"P", "U", "T">>), bytes |-> IntVal(100),
           timestamp |-> DateVal(200), anomaly_score |-> NaN,
           attack_vector |-> Null, source_country |-> Null] @@
    8 :> [is_anomaly |-> BoolVal(TRUE), owner_user_id |-> "u2",
           source_ip |-> StrVal(<<"2", "3", ".", "4", ".", "5", ".", "6">>), method |-> StrVal(<<"D", "E", "L", "E", "T", "E">>), bytes |-> IntVal(7000),
           timestamp |-> DateVal(100), anomaly_score |-> IntVal(0),
           attack_vector |-> Null, source_country |-> Null] @@
    9 :> [is_anomaly |-> BoolVal(TRUE), owner_user_id |-> "u1",
           source_ip |-> StrVal(<<"1", "0", ".", "0", ".", "0", ".", "1">>), method |-> StrVal(<<"G", "E", "T">>), bytes |-> IntVal(100),
           timestamp |-> Null, anomaly_score |-> IntVal(0),
           attack_vector |-> Null, source_country |-> Null]

EventIds == DOMAIN Catalog

\* request.args.get('sinceHours') values tried (None: the parameter is absent)
SinceHoursArgs == { Null, StrVal(<<"1">>), StrVal(<<"9", "9", "9">>), StrVal(<<"x">>) }

\* request.args.get('ownerUserId') values tried
OwnerArgs == {"", "u1"}

DefaultSinceHours == 24
MinSinceHours == 1
MaxSinceHours == 168

Max(a, b) == IF a >= b THEN a ELSE b
Min(a, b) == IF a <= b THEN a ELSE b

\* lines 368-374: since_hours = max(1, min(int(since_hours), 168)), 24 on failure
ClampSinceHours(arg) ==
    LET raw == IfNull(arg, StrVal(<<"2", "4">>)).s IN
    IF IsIntLiteral(raw)
    THEN Max(MinSinceHours, Min(IntLiteralValue(raw), MaxSinceHours))
    ELSE DefaultSinceHours

\* base_match: 'is_anomaly': {'$in': [True, 1, 'true', 'True']}
IsAnomaly(doc) ==
    \/ doc.is_anomaly.t = "bool" /\ doc.is_anomaly.v = 1
    \/ doc.is_anomaly.t = "int" /\ doc.is_anomaly.v = 1
    \/ doc.is_anomaly.t = "str"
         /\ doc.is_anomaly.s \in {<<"t", "r", "u", "e">>, <<"T", "r", "u", "e">>}

\* base_match: the owner_user_id filter is added only for a non-empty parameter
base_match(doc, owner) ==
    IsAnomaly(doc) /\ (owner # "" => doc.owner_user_id = owner)

\* add_ts: $convert {input: '$timestamp', to: 'date', onError: None, onNull: None}
add_ts(doc) ==
    CASE doc.timestamp.t = "date"   -> DateVal(doc.timestamp.v)
      [] doc.timestamp.t = "isostr" -> DateVal(doc.timestamp.v)
      [] OTHER                      -> Null

\* the window with its upper end included
window_match_closed(ts, q) == ts.t = "date" /\ q.since <= ts.v /\ ts.v <= q.now

\* window_match: {'ts': {'$gte': since, '$lt': now}}; a null ts matches neither bound
window_match(ts, q) == ts.t = "date" /\ q.since <= ts.v /\ ts.v < q.now

\* The documents that pass [$match base_match, add_ts, window_match]
Matching(docs, q) ==
    { id \in docs : base_match(Catalog[id], q.owner)
                      /\ window_match(add_ts(Catalog[id]), q) }

\* the fixed country list of lines 412-423
countries ==
    << <<"U", "n", "i", "t", "e", "d", " ", "S", "t", "a", "t", "e", "s">>,
       <<"C", "a", "n", "a", "d", "a">>,
       <<"B", "r", "a", "z", "i", "l">>,
       <<"U", "n", "i", "t", "e", "d", " ", "K", "i", "n", "g", "d", "o", "m">>,
       <<"G", "e", "r", "m", "a", "n", "y">>,
       <<"R", "u", "s", "s", "i", "a">>,
       <<"C", "h", "i", "n", "a">>,
       <<"J", "a", "p", "a", "n">>,
       <<"A", "u", "s", "t", "r", "a", "l", "i", "a">>,
       <<"S", "o", "u", "t", "h", " ", "A", "f", "r", "i", "c", "a">> >>

\* the part of a string before its first "." ($split then $arrayElemAt 0)
RECURSIVE FirstSegment(_)
FirstSegment(str) ==
    IF str = <<>> \/ Head(str) = "." THEN <<>>
    ELSE <<Head(str)>> \o FirstSegment(Tail(str))

Abs(n) == IF n < 0 THEN 0 - n ELSE n

\* country_expr: the country of one stored event
country_expr(doc) ==
    LET explicit == Trim(IfNull(doc.source_country, StrVal(<<>>)).s)
        ipStr == IfNull(doc.source_ip, StrVal(<<>>)).s
        firstInt == ConvertInt(StrVal(FirstSegment(ipStr)))
    IN  IF Len(explicit) > 0 THEN explicit
        ELSE countries[(Abs(firstInt) % Len(countries)) + 1]

\* the rows of every ordering of a set of groups that a $sort may return, given
\* the pairs <<a, b>> with a sorted strictly before b: rows that compare equal
\* under the sort key come in any order
Orderings(groups, before) ==
    LET n == Cardinality(groups) IN
    { rows \in [1..n -> groups] :
        /\ \A i, j \in 1..n : i # j => rows[i] # rows[j]
        /\ \A i, j \in 1..n : i < j => <<rows[j], rows[i]>> \notin before }

\* {'$limit': 5}
TopLimit == 5

Limit(rows) == SubSeq(rows, 1, Min(TopLimit, Len(rows)))

\* '_id': {'$ifNull': ['$source_ip', '']}
IpKey(doc) == IfNull(doc.source_ip, StrVal(<<>>)).s

MaxOf(nums) == CHOOSE n \in nums : \A k \in nums : k <= n

\* $group by source_ip with count = $sum 1 and lastSeen = $max ts
IpGroups(ids) ==
    { [ip |-> IpKey(Catalog[id]),
       count |-> Cardinality({ k \in ids : IpKey(Catalog[k]) = IpKey(Catalog[id]) }),
       lastSeen |-> MaxOf({ add_ts(Catalog[k]).v :
                              k \in { k \in ids : IpKey(Catalog[k]) = IpKey(Catalog[id]) } })]
      : id \in ids }

\* {'$sort': {'count': -1, 'lastSeen': -1}}
IpBefore(a, b) ==
    \/ a.count > b.count
    \/ a.count = b.count /\ a.lastSeen > b.lastSeen

\* the ip_rows the top-hostile query may return, as top_hostile entries
TopHostile(ids) == { Limit(rows) : rows \in Orderings(IpGroups(ids),
                              { p \in IpGroups(ids) \X IpGroups(ids) : IpBefore(p[1], p[2]) }) }

\* $group by the derived vector with value = $sum 1, read into vector_dist
VectorCount(ids, name) == Cardinality({ id \in ids : vector_expr(Catalog[id]) = name })

VectorNames == <<"Volumetric", "Protocol", "Application">>

VectorDist(ids) ==
    [i \in 1..Len(VectorNames) |->
        [name |-> VectorNames[i], value |-> VectorCount(ids, VectorNames[i])]]

\* Python round(): to the nearest integer, halves to the even one
Round(num, den) ==
    LET q == num \div den
        r == num % den
    IN  IF 2 * r < den THEN q
        ELSE IF 2 * r > den THEN q + 1
        ELSE IF q % 2 = 0 THEN q ELSE q + 1

\* $group by the derived country with count = $sum 1
CountryGroups(ids) ==
    { [name |-> country_expr(Catalog[id]),
       count |-> Cardinality({ k \in ids :
                     country_expr(Catalog[k]) = country_expr(Catalog[id]) })]
      : id \in ids }

\* {'$sort': {'count': -1}}
CountryBefore(a, b) == a.count > b.count

\* geo_top entry: pct = round((c / total) * 100)
GeoEntry(row, total) ==
    [name |-> row.name, count |-> row.count, pct |-> Round(row.count * 100, total)]

\* the geo_top lists the country query may produce
GeoTop(ids, total) ==
    { [i \in 1..Len(Limit(rows)) |-> GeoEntry(rows[i], total)]
        : rows \in Orderings(CountryGroups(ids),
                    { p \in CountryGroups(ids) \X CountryGroups(ids) :
                        CountryBefore(p[1], p[2]) }) }

\* Scores are counted in units of 1e-10, so the 1e-9 of line 709 is 10 units.
ScoreEps == 10

\* the quantiles 0.20 and 0.60 and the rank shares 0.20 and 0.40, in fifths
Fifths == 5
QObvious == 1
QSubtle == 3
RankObvious == 1
RankSubtle == 2

\* the score loop: a missing or non-finite anomaly_score is skipped
HasScore(doc) == doc.anomaly_score.t = "int"

MinScoreId(ids) ==
    CHOOSE id \in ids :
        \A k \in ids : Catalog[id].anomaly_score.v <= Catalog[k].anomaly_score.v

\* s_sorted = sorted(scores), over the events that have a finite score
RECURSIVE SortedScores(_)
SortedScores(ids) ==
    IF ids = {} THEN <<>>
    ELSE LET id == MinScoreId(ids)
         IN  <<Catalog[id].anomaly_score.v>> \o SortedScores(ids \ {id})

Scores(ids) == SortedScores({ id \in ids : HasScore(Catalog[id]) })

\* the quantile without interpolation: the value at the whole part of the position
Quantile_lower(sorted_values, num) ==
    Fifths * sorted_values[(((Len(sorted_values) - 1) * num) \div Fifths) + 1]

\* _quantile(sorted_values, num/5), times 5: linear interpolation between the
\* neighbours of position (n - 1) * q
Quantile(sorted_values, num) ==
    LET n == Len(sorted_values)
        pos == (n - 1) * num
        lo == pos \div Fifths
        w == pos % Fifths
        hi == IF w = 0 THEN lo ELSE lo + 1
    IN  IF n = 1 THEN Fifths * sorted_values[1]
        ELSE IF lo = hi THEN Fifths * sorted_values[lo + 1]
        ELSE sorted_values[lo + 1] * (Fifths - w) + sorted_values[hi + 1] * w

\* math.ceil(n * num / 5)
CeilShare(n, num) == (n * num + Fifths - 1) \div Fifths

\* other = len(scores) - obvious - subtle: the remainder taken of the scored events
Remainder_ofScored(total, scores, obvious, subtle) == Len(scores) - obvious - subtle

\* other = int(total - obvious - subtle)
Remainder(total, scores, obvious, subtle) == total - obvious - subtle

Distribution(obvious, subtle, other) ==
    << [bucket |-> "Obvious", count |-> obvious],
       [bucket |-> "Subtle", count |-> subtle],
       [bucket |-> "Other", count |-> other] >>

\* lines 702-742: thresholds (times 5) and bucket counts from the finite scores
\* of the window and the total of the count query
ConfidenceBuckets(scores, total) ==
    LET n == Len(scores) IN
    IF n = 0
    THEN [thresholds |-> [kind |-> "none", obviousLe |-> 0, subtleLe |-> 0],
          distribution |-> Distribution(0, 0, total)]
    ELSE IF n >= 2 /\ scores[n] - scores[1] >= ScoreEps
    THEN LET q_obvious == Quantile(scores, QObvious)
             q_subtle == Quantile(scores, QSubtle)
             IsObvious(x) == Fifths * x <= q_obvious
             IsSubtle(x) == ~IsObvious(x) /\ Fifths * x <= q_subtle
             obvious == Cardinality({ i \in 1..n : IsObvious(scores[i]) })
             subtle == Cardinality({ i \in 1..n : IsSubtle(scores[i]) })
         IN  [thresholds |-> [kind |-> "values", obviousLe |-> q_obvious,
                              subtleLe |-> q_subtle],
              distribution |-> Distribution(obvious, subtle,
                                   Remainder(total, scores, obvious, subtle))]
    ELSE LET n_obvious == CeilShare(n, RankObvious)
             n_subtle == CeilShare(n, RankSubtle)
         IN  [thresholds |-> [kind |-> "values",
                              obviousLe |-> Fifths * scores[Min(n_obvious - 1, n - 1) + 1],
                              subtleLe |-> Fifths * scores[Min(n_obvious + n_subtle - 1, n - 1) + 1]],
              distribution |-> Distribution(n_obvious, n_subtle,
                                   Remainder(total, scores, n_obvious, n_subtle))]

\* how often the collection may be written while one report is being computed
MaxWritesInFlight == 1

\* Every report step leaves the other parts alone.
ReportStep == UNCHANGED <<loaderVars, classifyVars, pureVars>>

\* inserts and deletes by the ingestion side, at any moment
Written ==
    /\ rpc # "idle" => writes < MaxWritesInFlight
    /\ writes' = IF rpc = "idle" THEN writes ELSE writes + 1
    /\ rlast' = NoLast
    /\ rout' = NoOut
    /\ UNCHANGED <<rpc, rreq, rtotal, rips, rvec, rgeo>>
    /\ ReportStep

InsertEvent ==
    \E id \in EventIds \ store :
        /\ Cardinality(store) < MaxEvents
        /\ store' = store \cup {id}
        /\ Written

RemoveEvent ==
    \E id \in store :
        /\ store' = store \ {id}
        /\ Written

\* the window of the response and the filters of its queries
Request(sinceArg, owner) ==
    LET since_hours == ClampSinceHours(sinceArg) IN
    [sinceHours |-> since_hours, owner |-> owner, since |-> Now - since_hours, now |-> Now]

\* the response of lines 566-596 for an empty window
EmptyBody(q) ==
    [window |-> q, totalThreats |-> 0, topHostileIps |-> <<>>,
     attackVectorDistribution |-> VectorDist({}), geoTopCountries |-> <<>>,
     aiConfidenceThresholds |-> NoThresholds,
     aiConfidenceDistribution |-> Distribution(0, 0, 0)]

Answer(q, body, vectorsClean) ==
    /\ rout' = [status |-> 200, req |-> q, body |-> body,
                vectorsClean |-> vectorsClean, prev |-> rlast]
    /\ rlast' = IF writes = 0 THEN [valid |-> TRUE, req |-> q, body |-> body]
                ELSE NoLast
    /\ rpc' = "idle"
    /\ rreq' = NoReport
    /\ writes' = 0
    /\ rtotal' = 0
    /\ rips' = <<>>
    /\ rvec' = NoVector
    /\ rgeo' = <<>>

\* GET /report/threat-intel up to the count query (lines 356-563) and, for an
\* empty window, the response of lines 565-596
ReportCount ==
    /\ rpc = "idle"
    /\ \E sinceArg \in SinceHoursArgs, owner \in OwnerArgs :
         LET q == Request(sinceArg, owner)
             total == Cardinality(Matching(store, q))
         IN  IF total <= 0
             THEN Answer(q, EmptyBody(q), TRUE)
             ELSE /\ rpc' = "ips"
                  /\ rreq' = q
                  /\ rtotal' = total
                  /\ writes' = 0
                  /\ rout' = NoOut
                  /\ UNCHANGED <<rips, rvec, rgeo, rlast>>
    /\ UNCHANGED store
    /\ ReportStep

\* lines 598-633: the top-hostile query
ReportIps ==
    /\ rpc = "ips"
    /\ rips' \in TopHostile(Matching(store, rreq))
    /\ rpc' = "vectors"
    /\ rout' = NoOut
    /\ UNCHANGED <<store, rreq, writes, rtotal, rvec, rgeo, rlast>>
    /\ ReportStep

\* lines 635-652: the vector query
ReportVectors ==
    /\ rpc = "vectors"
    /\ rvec' = [dist |-> VectorDist(Matching(store, rreq)), clean |-> writes = 0]
    /\ rpc' = "geo"
    /\ rout' = NoOut
    /\ UNCHANGED <<store, rreq, writes, rtotal, rips, rgeo, rlast>>
    /\ ReportStep

\* lines 654-673: the country query
ReportGeo ==
    /\ rpc = "geo"
    /\ rgeo' \in GeoTop(Matching(store, rreq), rtotal)
    /\ rpc' = "scores"
    /\ rout' = NoOut
    /\ UNCHANGED <<store, rreq, writes, rtotal, rips, rvec, rlast>>
    /\ ReportStep

\* lines 675-771: the score query, the buckets and the response
ReportScores ==
    /\ rpc = "scores"
    /\ LET buckets == ConfidenceBuckets(Scores(Matching(store, rreq)), rtotal)
       IN  Answer(rreq,
                  [window |-> rreq, totalThreats |-> rtotal, topHostileIps |-> rips,
                   attackVectorDistribution |-> rvec.dist, geoTopCountries |-> rgeo,
                   aiConfidenceThresholds |-> buckets.thresholds,
                   aiConfidenceDistribution |-> buckets.distribution],
                  rvec.clean)
    /\ UNCHANGED store
    /\ ReportStep

\* the connection string the process finds in its environment: none, one that
\* names a default database, one that does not
MongoUrls == {"absent", "withDatabase", "withoutDatabase"}

NoDefaultDatabase == "MongoDB connection established, but no usable database found"
UrlNotSet == "MONGO_URL not set for ai-engine"
SelectionTimeout == "ServerSelectionTimeoutError"

\* _get_packets_collection(), lines 277-316, for a server that is reachable or
\* not.  MongoClient() does not connect.  With a default database the
\* collection is returned unseen; without one each candidate is probed with
\* estimated_document_count(), which raises when no server is reachable, and
\* the exception is swallowed (line 309).
get_packets_collection(url, reachable) ==
    CASE url = "absent" -> [coll |-> FALSE, err |-> UrlNotSet]
      [] url = "withDatabase" -> [coll |-> TRUE, err |-> None]
      [] OTHER -> IF reachable THEN [coll |-> TRUE, err |-> None]
                  ELSE [coll |-> FALSE, err |-> NoDefaultDatabase]

ErrorResponse(status, reason) ==
    [status |-> status, req |-> NoReport, body |-> NoBody, vectorsClean |-> TRUE,
     prev |-> NoLast, ok |-> FALSE, error |-> reason]

\* GET /report/threat-intel when the store cannot be reached: 503 when
\* _get_packets_collection() returns no collection (lines 364-366); otherwise
\* the count query raises and the handler answers 500 (lines 772-775).
\* ReportCount is the request that finds the store reachable.
ReportStoreDown ==
    /\ rpc = "idle"
    /\ \E url \in MongoUrls :
         LET got == get_packets_collection(url, FALSE)
         IN  rout' = IF got.coll THEN ErrorResponse(500, SelectionTimeout)
                     ELSE ErrorResponse(503, got.err)
    /\ UNCHANGED <<store, rpc, rreq, writes, rtotal, rips, rvec, rgeo, rlast>>
    /\ ReportStep

ReportNext ==
    \/ InsertEvent
    \/ RemoveEvent
    \/ ReportStoreDown
    \/ ReportCount
    \/ ReportIps
    \/ ReportVectors
    \/ ReportGeo
    \/ ReportScores

(***************************************************************************)
(* Properties of the report.                                               *)
(***************************************************************************)
\* the step just taken answered a report with 200
Reported == rout.status = 200

BucketsSumToTotal(body) ==
    /\ Len(body.aiConfidenceDistribution) = 3
    /\ body.aiConfidenceDistribution[1].bucket = "Obvious"
    /\ body.aiConfidenceDistribution[2].bucket = "Subtle"
    /\ body.aiConfidenceDistribution[3].bucket = "Other"
    /\ body.aiConfidenceDistribution[1].count + body.aiConfidenceDistribution[2].count
         + body.aiConfidenceDistribution[3].count = body.totalThreats

\* C7: in every successful report the counts of the three buckets Obvious,
\* Subtle and Other add up to the totalThreats of the same response, whatever
\* the events of the window and their scores are.
C7_BucketsSumToTotal == Reported => BucketsSumToTotal(rout.body)

\* C7 is exercised by a window of two events of which only one has a score: the
\* range is collapsed, so the rank-based branch runs on fewer scores than events
C7_Witness ==
    /\ Reported
    /\ rout.body.totalThreats = 2
    /\ rout.body.aiConfidenceThresholds.kind = "values"
    /\ rout.body.aiConfidenceThresholds.obviousLe = rout.body.aiConfidenceThresholds.subtleLe
    /\ rout.body.aiConfidenceDistribution[1].count = 1
    /\ rout.body.aiConfidenceDistribution[2].count = 1
    /\ rout.body.aiConfidenceDistribution[3].count = 0

VectorsSumToTotal(body) ==
    /\ Len(body.attackVectorDistribution) = 3
    /\ body.attackVectorDistribution[1].name = "Volumetric"
    /\ body.attackVectorDistribution[2].name = "Protocol"
    /\ body.attackVectorDistribution[3].name = "Application"
    /\ body.attackVectorDistribution[1].value + body.attackVectorDistribution[2].value
         + body.attackVectorDistribution[3].value = body.totalThreats

\* C8 as stated: in every successful report attackVectorDistribution has the
\* three entries Volumetric, Protocol, Application and their values add up to
\* totalThreats, also when the collection is written between the count query
\* and the vector query.
C8_VectorsSumToTotal == Reported => VectorsSumToTotal(rout.body)

\* C8, amended: in every successful report attackVectorDistribution has the
\* three entries Volumetric, Protocol, Application, and their values add up to
\* totalThreats when the collection was not written between the count query
\* and the vector query of that report.
C8_VectorsSumToTotalIfUnwritten ==
    (Reported /\ rout.vectorsClean) => VectorsSumToTotal(rout.body)

\* C8 is exercised by a report over three events, written to after its vector
\* query, in which one category is present with the value zero
C8_Witness ==
    /\ Reported
    /\ rout.vectorsClean
    /\ ~rlast.valid
    /\ rout.body.totalThreats = 3
    /\ \E i \in 1..3 : rout.body.attackVectorDistribution[i].value = 0

\* C9: two reports over the same unchanged collection, with the same window
\* and the same owner filter, have the same output, the order of
\* topHostileIps and geoTopCountries included.
C9_Deterministic ==
    (Reported /\ rout.prev.valid /\ rout.prev.req = rout.req)
        => rout.body = rout.prev.body

\* the step just taken answered a report that could not reach the store
StoreWasDown == rout.status \in {500, 503}

\* C13: whenever the event store cannot be reached, whether the connection
\* string is absent, names a default database or names none, the report
\* answers 503 with {ok: false, error: reason}, never 500.
C13_UnreachableIs503 ==
    StoreWasDown => (rout.status = 503 /\ ~rout.ok /\ rout.error # None)

\* the stored timestamp is a date or a string that reads as one
Parses(timestamp) == timestamp.t \in {"date", "isostr"}

\* the anomalous events of the owner whose timestamp parses to a date in
\* [since, now)
InWindow(docs, q) ==
    { id \in docs :
        /\ IsAnomaly(Catalog[id])
        /\ (q.owner # "" => Catalog[id].owner_user_id = q.owner)
        /\ Parses(Catalog[id].timestamp)
        /\ q.since <= Catalog[id].timestamp.v
        /\ Catalog[id].timestamp.v < q.now }

\* the report answered by the step just taken saw the store as it is now
ReportedUnwritten == Reported /\ rlast.valid

\* C14: every aggregate of a report counts exactly the anomalous events whose
\* timestamp parses to a date ts with since <= ts < now; an event whose
\* timestamp is missing or unparsable is counted in none of them.
C14_HalfOpenWindow ==
    ReportedUnwritten =>
        LET W == InWindow(store, rout.req)
            b == rout.body
        IN  /\ b.totalThreats = Cardinality(W)
            /\ \A i \in 1..Len(b.topHostileIps) :
                  b.topHostileIps[i].count =
                    Cardinality({ id \in W : IpKey(Catalog[id]) = b.topHostileIps[i].ip })
            /\ \A i \in 1..3 :
                  b.attackVectorDistribution[i].value =
                    Cardinality({ id \in W :
                        vector_expr(Catalog[id]) = b.attackVectorDistribution[i].name })
            /\ \A i \in 1..Len(b.geoTopCountries) :
                  b.geoTopCountries[i].count =
                    Cardinality({ id \in W :
                        country_expr(Catalog[id]) = b.geoTopCountries[i].name })
            /\ b.aiConfidenceDistribution =
                  ConfidenceBuckets(Scores(W), Cardinality(W)).distribution

\* C14 is exercised by a report over a store that holds an event in the window,
\* one with an unparsable timestamp, one without timestamp and one at `now`
C14_Witness ==
    /\ ReportedUnwritten
    /\ store = {1, 5, 7, 9}
    /\ rout.req.owner = ""
    /\ rout.req.sinceHours = 24
    /\ rout.body.totalThreats = 1
    /\ Len(rout.body.topHostileIps) = 1
    /\ Len(rout.body.geoTopCountries) = 1

\* C19: in every successful report each of the three bucket counts is at least
\* 0 and at most totalThreats, for every number of scores in the window and
\* also when the matching events change between the count and the score query.
C19_CountsWithinTotal ==
    Reported =>
        \A i \in 1..3 :
            /\ rout.body.aiConfidenceDistribution[i].count >= 0
            /\ rout.body.aiConfidenceDistribution[i].count <= rout.body.totalThreats

(***************************************************************************)
(* PART 4.  Functions of the program applied to one input.                 *)
(***************************************************************************)
countryVars == <<gip, gquery, gapp>>
deriveVars == <<dmethod, dbytes, dquery, dapp>>
predictVars == <<pmodel, pdata, presp>>
bucketVars == <<bscores, btotal, bout>>

(***************************************************************************)
(* Specification SpecCountry: the two country derivations applied to one   *)
(* stored event without a usable source_country.                           *)
(***************************************************************************)
\* first segments and remainders of the source_ip values tried
FirstSegments ==
    { <<>>, <<"0">>, <<"1">>, <<"2">>, <<"3">>,
      <<"4">>, <<"5">>, <<"6">>, <<"7">>, <<"8">>,
      <<"9">>, <<"1", "0">>, <<"2", "3">>, <<"1", "9", "9">>, <<"2", "5", "5">>,
      <<"-", "7">>, <<"-", "1">>, <<"-", "1", "0">>, <<"-", "2", "3">>, <<"x">>,
      <<"1", "x">> }
RestSegments == { <<>>, <<".", "0", ".", "0", ".", "1">>, <<".", "4", ".", "5", ".", "6">> }

\* stored source_ip values tried
SourceIpValues == {Null} \cup { StrVal(f \o r) : f \in FirstSegments, r \in RestSegments }

\* stored source_country values that leave the country to be derived
BlankCountryValues == { Null, StrVal(<<>>), StrVal(<<" ">>) }

\* _ip_to_country_name(ip), lines 334-341: int() of the first segment of the
\* stripped address; a negative number and a failed parse both give countries[0]
ip_to_country_name(ip) ==
    LET str == Trim(IfNull(ip, StrVal(<<>>)).s)
        seg == FirstSegment(str)
    IN  IF ~IsIntLiteral(seg) THEN countries[1]
        ELSE IF IntLiteralValue(seg) < 0 THEN countries[1]
        ELSE countries[(Abs(IntLiteralValue(seg)) % Len(countries)) + 1]

CountryIdle ==
    /\ gip = [source_ip |-> Null, source_country |-> Null]
    /\ gquery = <<>>
    /\ gapp = <<>>

CountryInit ==
    /\ gip \in [source_ip : SourceIpValues, source_country : BlankCountryValues]
    /\ gquery = <<>>
    /\ gapp = <<>>

CountryStep == UNCHANGED <<loaderVars, classifyVars, reportVars, deriveVars, predictVars, bucketVars>>

\* the $addFields stage {'country': country_expr} applied to the event
CountryQuery ==
    /\ gquery = <<>>
    /\ gquery' = country_expr(gip)
    /\ UNCHANGED <<gip, gapp>>
    /\ CountryStep

\* _ip_to_country_name applied to the source_ip of the event
CountryApp ==
    /\ gapp = <<>>
    /\ gapp' = ip_to_country_name(gip.source_ip)
    /\ UNCHANGED <<gip, gquery>>
    /\ CountryStep

CountryNext == CountryQuery \/ CountryApp

\* the first segment of the address as an integer, 0 when it is none
FirstNumber(doc) ==
    LET seg == FirstSegment(IfNull(doc.source_ip, StrVal(<<>>)).s)
    IN  IF IsIntLiteral(seg) THEN IntLiteralValue(seg) ELSE 0

CountryByAbsFirst(doc) == countries[(Abs(FirstNumber(doc)) % 10) + 1]

\* C11: for an event without an explicit non-empty source_country both
\* derivations select countries[|first| mod 10], first being the first segment
\* of source_ip as an integer (0 when it does not parse), also for a negative
\* first segment; so the two select the same country.
C11_CountryByAbsFirst ==
    /\ gquery # <<>> => gquery = CountryByAbsFirst(gip)
    /\ gapp # <<>> => gapp = CountryByAbsFirst(gip)
    /\ (gquery # <<>> /\ gapp # <<>>) => gquery = gapp

(***************************************************************************)
(* Specification SpecPredict: predict() after the model check (lines       *)
(* 206-261), applied to one loaded model and one request body.             *)
(***************************************************************************)
\* further JSON values: an absent key, an array of n elements, a number with a
\* fraction (in hundredths)
Missing == [t |-> "missing", s |-> <<>>, v |-> 0]
ListVal(n) == [t |-> "list", s |-> <<>>, v |-> n]
NumVal(h) == [t |-> "num", s |-> <<>>, v |-> h]

\* 1.0 in the hundredths entropy is counted in
EntropyOne == 100
\* the defaults of lines 221 and 231
DefaultEntropy == 30
DefaultPort == 80

\* dict.get(key, None) of an absent key
Get_(x) == IF x.t = "missing" THEN Null ELSE x

\* Python truth value of a JSON value
Truthy(x) ==
    CASE x.t \in {"missing", "null"} -> FALSE
      [] x.t = "str"                 -> x.s # <<>>
      [] OTHER                       -> x.v # 0

\* int(x): [ok |-> FALSE] stands for the ValueError or TypeError it raises
PyInt(x) ==
    CASE x.t \in {"int", "bool"} -> [ok |-> TRUE, v |-> x.v]
      [] x.t = "num" -> [ok |-> TRUE,
                         v |-> IF x.v >= 0 THEN x.v \div EntropyOne
                               ELSE 0 - ((0 - x.v) \div EntropyOne)]
      [] x.t = "str" -> IF IsIntLiteral(Trim(x.s))
                        THEN [ok |-> TRUE, v |-> IntLiteralValue(Trim(x.s))]
                        ELSE [ok |-> FALSE, v |-> 0]
      [] OTHER -> [ok |-> FALSE, v |-> 0]

\* float(x), in hundredths
PyFloat(x) ==
    CASE x.t \in {"int", "bool"} -> [ok |-> TRUE, v |-> x.v * EntropyOne]
      [] x.t = "num" -> [ok |-> TRUE, v |-> x.v]
      [] x.t = "str" -> IF IsIntLiteral(Trim(x.s))
                        THEN [ok |-> TRUE, v |-> IntLiteralValue(Trim(x.s)) * EntropyOne]
                        ELSE [ok |-> FALSE, v |-> 0]
      [] OTHER -> [ok |-> FALSE, v |-> 0]

PROTOCOL_TO_INDEX ==
    { <<<<"T", "C", "P">>, 0>>, <<<<"U", "D", "P">>, 1>>,
      <<<<"I", "C", "M", "P">>, 2>>, <<<<"H", "T", "T", "P">>, 3>> }

COMMON_PORTS == {80, 443, 8080}
ATTACK_PORTS == {23, 53, 123, 445, 3389, 1900, 4444}

\* _protocol_index(protocol): (protocol or '').strip().upper() looked up, 0 when
\* unknown; .strip() of a value that is no string raises AttributeError
protocol_index(protocol) ==
    IF ~Truthy(protocol) THEN [ok |-> TRUE, v |-> 0]
    ELSE IF protocol.t # "str" THEN [ok |-> FALSE, v |-> 0]
    ELSE LET name == ToUpper(Trim(protocol.s))
         IN  IF \E e \in PROTOCOL_TO_INDEX : e[1] = name
             THEN [ok |-> TRUE, v |-> (CHOOSE e \in PROTOCOL_TO_INDEX : e[1] = name)[2]]
             ELSE [ok |-> TRUE, v |-> 0]

\* lines 214-233: the four raw features, or the exception that ends in a 500
Coerce(data) ==
    LET bytes_arg == IF Truthy(data.bytes) THEN data.bytes ELSE IntVal(0)
        packet_bytes == PyInt(bytes_arg)
        proto == protocol_index(Get_(data.protocol))
        entropy_raw == Get_(data.entropy)
        entropy == IF entropy_raw.t # "null" /\ PyFloat(entropy_raw).ok
                   THEN PyFloat(entropy_raw).v ELSE DefaultEntropy
        port_raw == IF Get_(data.dst_port).t = "null" THEN Get_(data.port)
                    ELSE data.dst_port
        dst_port == IF port_raw.t # "null" /\ PyInt(port_raw).ok
                    THEN PyInt(port_raw).v ELSE DefaultPort
    IN  [ok |-> data.kind = "object" /\ packet_bytes.ok /\ proto.ok,
         bytes |-> packet_bytes.v,
         protocol_index |-> proto.v,
         entropy |-> Max(0, Min(EntropyOne, entropy)),
         dst_port |-> dst_port]

Flag(b) == IF b THEN 1 ELSE 0

\* _build_features: the ten columns; bytes_log stands for log1p of its value
build_features(raw) ==
    [bytes_log |-> Max(0, raw.bytes),
     entropy |-> Max(0, Min(EntropyOne, raw.entropy)),
     dst_port |-> raw.dst_port,
     proto_tcp |-> Flag(raw.protocol_index = 0),
     proto_udp |-> Flag(raw.protocol_index = 1),
     proto_icmp |-> Flag(raw.protocol_index = 2),
     proto_http |-> Flag(raw.protocol_index = 3),
     port_is_common |-> Flag(raw.dst_port \in COMMON_PORTS),
     port_is_attack |-> Flag(raw.dst_port \in ATTACK_PORTS),
     port_is_weird |-> Flag(raw.dst_port \notin COMMON_PORTS)]

\* float(pipeline.decision_function(X)[0]): the value the model gives X
decision_function(m, X) == [of |-> X, negated |-> FALSE]

\* a response that also carries the label the bundle's threshold gives
PredictBody_labelled(m, score, packet_id) ==
    IF m.threshold
    THEN [score |-> score, id |-> packet_id, is_anomaly |-> "score < threshold"]
    ELSE [score |-> score, id |-> packet_id]

\* lines 255-258: the body of the 200 response
PredictBody(m, score, packet_id) == [score |-> score, id |-> packet_id]

\* predict() from line 206 on, m being a loaded model
predict(m, data) ==
    LET raw == Coerce(data) IN
    IF ~raw.ok
    THEN [status |-> 500, body |-> [error |-> "str(e)"]]
    ELSE [status |-> 200,
          body |-> PredictBody(m, decision_function(m, build_features(raw)),
                               Get_(data.id))]

\* the objects joblib.load() can return: a bare estimator, or the bundle of
\* train_model.py, with or without its threshold
PredictModels ==
    { [kind |-> "bare", threshold |-> FALSE],
      [kind |-> "bundle", threshold |-> TRUE],
      [kind |-> "bundle", threshold |-> FALSE] }

UdpName == StrVal(<<"U", "D", "P">>)

\* request bodies tried: objects with any of these field values, and an array
PredictObjects ==
    [kind : {"object"},
     bytes : { Missing, Null, IntVal(50000), IntVal(0 - 5), StrVal(<<"1", "2", "3">>),
               StrVal(<<"a", "b", "c">>), ListVal(1) },
     protocol : { Missing, Null, UdpName, StrVal(<<" ", "u", "d", "p", " ">>),
                  StrVal(<<"X", "Y", "Z">>), IntVal(5) },
     entropy : { Missing, Null, NumVal(95), NumVal(150), NumVal(0 - 20),
                 StrVal(<<"a", "b", "c">>), ListVal(1) },
     dst_port : { Missing, Null, IntVal(4444), IntVal(0 - 1), StrVal(<<"4", "4", "3">>),
                  StrVal(<<"a", "b", "c">>) },
     port : { Missing, IntVal(8080) },
     id : { Missing, StrVal(<<"p", "1">>) }]

PredictArrays ==
    { [kind |-> "array", bytes |-> Missing, protocol |-> Missing, entropy |-> Missing,
       dst_port |-> Missing, port |-> Missing, id |-> Missing] }

NoPredictResp == [status |-> 0, body |-> [error |-> "none"]]

PredictIdle ==
    /\ pmodel = [kind |-> "bare", threshold |-> FALSE]
    /\ pdata = [kind |-> "object", bytes |-> Missing, protocol |-> Missing,
                entropy |-> Missing, dst_port |-> Missing, port |-> Missing,
                id |-> Missing]
    /\ presp = NoPredictResp

PredictInit ==
    /\ pmodel \in PredictModels
    /\ pdata \in PredictObjects \cup PredictArrays
    /\ presp = NoPredictResp

\* the scoring part of POST /predict
PredictApply ==
    /\ presp.status = 0
    /\ presp' = predict(pmodel, pdata)
    /\ UNCHANGED <<pmodel, pdata>>
    /\ UNCHANGED <<loaderVars, classifyVars, reportVars, countryVars, deriveVars, bucketVars>>

PredictNext == PredictApply

\* C12: with a loaded model the scoring path answers 200 for every JSON object,
\* whatever the type or value of bytes, protocol, entropy and dst_port/port;
\* a malformed field is coerced to its default and never causes a 500.
C12_InputNeverFails ==
    (presp.status # 0 /\ pdata.kind = "object") => presp.status = 200

\* C18: a successful /predict response has exactly the fields score and id;
\* score is the model's decision_function value with its polarity unchanged, id
\* is the request's id (null when absent), and no label or other thresholded
\* field is returned, whether or not the bundle carries a threshold.
C18_ScoreAndIdOnly ==
    presp.status = 200 =>
        /\ DOMAIN presp.body = {"score", "id"}
        /\ presp.body.score.of = build_features(Coerce(pdata))
        /\ ~presp.body.score.negated
        /\ presp.body.id = (IF pdata.id = Missing THEN Null ELSE pdata.id)

\* C18 is exercised by the scenario request {bytes: 50000, protocol: "UDP",
\* entropy: 0.95, dst_port: 4444} scored by a bundle that carries a threshold
C18_Witness ==
    /\ presp.status = 200
    /\ pmodel = [kind |-> "bundle", threshold |-> TRUE]
    /\ pdata.bytes = IntVal(50000) /\ pdata.protocol = UdpName
    /\ pdata.entropy = NumVal(95) /\ pdata.dst_port = IntVal(4444)
    /\ pdata.id = Missing
    /\ presp.body.id = Null
    /\ presp.body.score.of.proto_udp = 1
    /\ presp.body.score.of.port_is_attack = 1

(***************************************************************************)
(* Specification SpecDerive: the application-side and the query-side       *)
(* derivation of the attack vector applied to one stored event.            *)
(***************************************************************************)
\* stored method values tried: any case, padded, null, no write method
DeriveMethods ==
    { Null, StrVal(<<>>), Post, Get, StrVal(<<"p", "o", "s", "t">>),
      StrVal(<<" ", "P", "O", "S", "T", " ">>), StrVal(<<"P", "U", "T">>),
      StrVal(<<"p", "a", "t", "c", "h">>), StrVal(<<"D", "E", "L", "E", "T", "E">>),
      StrVal(<<"D", "E", "L", "E", "T", "E", " ">>), StrVal(<<"H", "E", "A", "D">>) }

\* stored bytes values tried: integers around 7000, null, strings
DeriveBytes ==
    { Null, IntVal(0), IntVal(500), IntVal(6999), IntVal(7000), IntVal(8000),
      IntVal(0 - 1), StrVal(<<"8", "0", "0", "0">>), StrVal(<<"5", "0", "0">>),
      StrVal(<<"a", "b", "c">>), StrVal(<<>>) }

\* _classify_attack_vector(method, bytes_count), lines 346-353; int() of a string
\* that is no integer raises ValueError
classify_attack_vector(method, bytes_count) ==
    LET m == ToUpper(Trim(IfNull(method, StrVal(<<>>)).s))
        b == PyInt(IF Truthy(bytes_count) THEN bytes_count ELSE IntVal(0))
    IN  IF ~b.ok THEN "ValueError"
        ELSE IF b.v >= VolumetricBytes THEN "Volumetric"
        ELSE IF m \in ApplicationMethods THEN "Application"
        ELSE "Protocol"

\* the default branch of vector_expr for one event without explicit vector
derived_vector_expr(method, bytes_stored) ==
    vector_expr([attack_vector |-> Null, method |-> method, bytes |-> bytes_stored])

DeriveIdle ==
    /\ dmethod = Null
    /\ dbytes = Null
    /\ dquery = "none"
    /\ dapp = "none"

DeriveInit ==
    /\ dmethod \in DeriveMethods
    /\ dbytes \in DeriveBytes
    /\ dquery = "none"
    /\ dapp = "none"

DeriveStep == UNCHANGED <<loaderVars, classifyVars, reportVars, countryVars, predictVars, bucketVars>>

\* the query side: $addFields {'vector': vector_expr}
DeriveQuery ==
    /\ dquery = "none"
    /\ dquery' = derived_vector_expr(dmethod, dbytes)
    /\ UNCHANGED <<dmethod, dbytes, dapp>>
    /\ DeriveStep

\* the application side: _classify_attack_vector(method, bytes)
DeriveApp ==
    /\ dapp = "none"
    /\ dapp' = classify_attack_vector(dmethod, dbytes)
    /\ UNCHANGED <<dmethod, dbytes, dquery>>
    /\ DeriveStep

DeriveNext == DeriveQuery \/ DeriveApp

\* C17: _classify_attack_vector and the derivation branch of vector_expr
\* return the same category for every stored method (any case, padded or
\* not, null) and every stored bytes value (integer, null, non-numeric).
C17_SameDerivation == (dquery # "none" /\ dapp # "none") => dquery = dapp

(***************************************************************************)
(* Specification SpecBuckets: lines 702-742 applied to one ascending list  *)
(* of finite scores and the total of the count query.                      *)
(***************************************************************************)
\* number of finite scores in the window at most
MaxScores == 5
\* number of events of the window without a finite score at most
MaxUnscored == 1

\* scores tried, in units of 1e-10: 0 and 4 are nearer than 1e-9, the others
\* are 1, 2, 3, 4, 5 times 2e-9
ScoreValues == {0, 4, 20, 40, 60, 80, 100}

IsAscending(seq) == \A i \in 1..(Len(seq) - 1) : seq[i] <= seq[i + 1]

ScoreLists ==
    UNION { { seq \in [1..n -> ScoreValues] : IsAscending(seq) } : n \in 0..MaxScores }

NoBuckets == [thresholds |-> NoThresholds, distribution |-> Distribution(0, 0, 0)]

BucketsIdle ==
    /\ bscores = <<>>
    /\ btotal = 0
    /\ bout = NoBuckets

BucketsInit ==
    /\ bscores \in ScoreLists
    /\ btotal \in Len(bscores)..(Len(bscores) + MaxUnscored)
    /\ bout = NoBuckets

\* lines 702-742
BucketsApply ==
    /\ bout = NoBuckets
    /\ bout' = ConfidenceBuckets(bscores, btotal)
    /\ UNCHANGED <<bscores, btotal>>
    /\ UNCHANGED <<loaderVars, classifyVars, reportVars, countryVars, deriveVars, predictVars>>

BucketsNext == BucketsApply

\* the buckets of bscores have been computed
Bucketed == bout.thresholds.kind # "absent"

\* at least two scores, and the largest is 1e-9 or more above the smallest
Spread ==
    /\ Len(bscores) >= 2
    /\ bscores[Len(bscores)] - bscores[1] >= 10

\* five times the value interpolated linearly at position (n - 1) * fifths / 5
\* of the ascending list: lo is the whole part of the position, w its fifths
Interpolated(seq, fifths) ==
    LET n == Len(seq)
        lo == CHOOSE k \in 0..(n - 1) : 5 * k <= (n - 1) * fifths /\ (n - 1) * fifths < 5 * (k + 1)
        w == (n - 1) * fifths - 5 * lo
    IN  IF w = 0 THEN 5 * seq[lo + 1]
        ELSE (5 - w) * seq[lo + 1] + w * seq[lo + 2]

\* C15: with at least two finite scores and max - min >= 1e-9 the thresholds
\* are the linearly interpolated quantiles of the ascending scores at position
\* (n - 1) * q for q = 0.20 and q = 0.60, Obvious is the number of scores <= the
\* 0.20 cutoff and Subtle the number of scores above it and <= the 0.60 cutoff.
C15_InterpolatedQuantiles ==
    (Bucketed /\ Spread) =>
        LET cut20 == Interpolated(bscores, 1)
            cut60 == Interpolated(bscores, 3)
        IN  /\ bout.thresholds.kind = "values"
            /\ bout.thresholds.obviousLe = cut20
            /\ bout.thresholds.subtleLe = cut60
            /\ bout.distribution[1].count =
                 Cardinality({ i \in 1..Len(bscores) : 5 * bscores[i] <= cut20 })
            /\ bout.distribution[2].count =
                 Cardinality({ i \in 1..Len(bscores) :
                                 5 * bscores[i] > cut20 /\ 5 * bscores[i] <= cut60 })

\* C15 is exercised by the scores 1, 2, 3, 4, 5 (times 2e-9): the cutoffs are 1.8
\* and 3.4 (times 2e-9, kept times 5), one score is Obvious and two are Subtle
C15_Witness ==
    /\ Bucketed
    /\ bscores = <<20, 40, 60, 80, 100>>
    /\ bout.thresholds.obviousLe = 180
    /\ bout.thresholds.subtleLe = 340
    /\ bout.distribution[1].count = 1
    /\ bout.distribution[2].count = 2

\* the smallest whole number that is at least num / den
CeilDiv(num, den) == CHOOSE k \in 0..num : den * k >= num /\ den * (k - 1) < num

\* C16: when the range collapses (a single score included) ceil(n * 0.20) events
\* go to Obvious and the next ceil(n * 0.40) to Subtle by rank, the remainder
\* to Other, so that the buckets partition the n events, and the thresholds are
\* the scores at the last rank of Obvious and of Subtle.
C16_RankBuckets ==
    (Bucketed /\ Len(bscores) >= 1 /\ ~Spread) =>
        LET n == Len(bscores)
            obvious == CeilDiv(n, 5)
            subtle == CeilDiv(2 * n, 5)
        IN  /\ bout.distribution[1].count = obvious
            /\ bout.distribution[2].count = subtle
            /\ obvious + subtle <= n
            /\ bout.distribution[3].count = btotal - obvious - subtle
            /\ bout.thresholds.obviousLe = 5 * bscores[obvious]
            /\ bout.thresholds.subtleLe = 5 * bscores[obvious + subtle]

PureIdle == CountryIdle /\ DeriveIdle /\ PredictIdle /\ BucketsIdle

vars == <<loaderVars, classifyVars, reportVars, pureVars>>

\* no event is being classified
ClassifyIdle == cdoc = [attack_vector |-> Null, method |-> Null, bytes |-> Null] /\ cvec = "none"

\* The loader and the request layer.
Init == LoaderInit /\ ClassifyIdle /\ ReportIdle /\ PureIdle
Next == LoaderNext
Spec == Init /\ [][Next]_vars

\* The classification of one stored event.
InitClassify == ClassifyInit /\ LoaderInit /\ ReportIdle /\ PureIdle
NextClassify == ClassifyNext
SpecClassify == InitClassify /\ [][NextClassify]_vars

\* the report against a collection that is written while it is computed
InitReport == ReportIdle /\ LoaderInit /\ ClassifyIdle /\ PureIdle
NextReport == ReportNext
SpecReport == InitReport /\ [][NextReport]_vars

\* The two country derivations applied to one stored event.
InitCountry ==
    CountryInit /\ DeriveIdle /\ PredictIdle /\ BucketsIdle
        /\ LoaderInit /\ ClassifyIdle /\ ReportIdle
NextCountry == CountryNext
SpecCountry == InitCountry /\ [][NextCountry]_vars

\* The two vector derivations applied to one stored event.
InitDerive ==
    DeriveInit /\ CountryIdle /\ PredictIdle /\ BucketsIdle
        /\ LoaderInit /\ ClassifyIdle /\ ReportIdle
NextDerive == DeriveNext
SpecDerive == InitDerive /\ [][NextDerive]_vars

\* The scoring part of predict() applied to one model and one request body.
InitPredict ==
    PredictInit /\ CountryIdle /\ DeriveIdle /\ BucketsIdle
        /\ LoaderInit /\ ClassifyIdle /\ ReportIdle
NextPredict == PredictNext
SpecPredict == InitPredict /\ [][NextPredict]_vars

\* The confidence buckets of one list of scores.
InitBuckets ==
    BucketsInit /\ CountryIdle /\ DeriveIdle /\ PredictIdle
        /\ LoaderInit /\ ClassifyIdle /\ ReportIdle
NextBuckets == BucketsNext
SpecBuckets == InitBuckets /\ [][NextBuckets]_vars
====
